---- MODULE Spec2Model ----
(***************************************************************************)
(* AVLTree<int, std::less<int>>: the node graph, the recursive insert and  *)
(* deleteNode with their rotations, clear, find, and the bidirectional     *)
(* cursor (iterator::operator++ / operator--).                             *)
(*                                                                         *)
(* Node objects are heap cells addressed by a positive id; NULL is 0.  The *)
(* heap is a function whose domain is the set of live (allocated and not   *)
(* yet deleted) node objects.  A dereference of NULL or of a deleted node  *)
(* by a mutating operation raises the flag `fault` and stops the machine.  *)
(***************************************************************************)
EXTENDS Integers, Sequences, FiniteSets

\* Keys are drawn from 1..MaxKey.
MaxKey == 5

Keys == 1..MaxKey

NULL == 0

VARIABLES
    root,       \* AVLTree::root
    tree_size,  \* AVLTree::tree_size
    heap,       \* live Node objects: id -> [key, left, right, parent, height]
    it,         \* iterator::current of one client cursor
    fault,      \* a mutating operation dereferenced NULL or a deleted node
    last,       \* ghost: the last public call, its key, the nodes it created and
                \* deleted, the rebalancing events it ran, the removal shape met
    S           \* the abstract set of stored keys, maintained side by side

vars == <<root, tree_size, heap, it, fault, last, S>>

(* Helpers of the heap model *)

Max(a, b) == IF a >= b THEN a ELSE b

Live(m, n) == n \in DOMAIN m.heap

\* What a read through a pointer that is not a live node yields in the model.
\* C4_ParentConsistent shows that no link of a reachable node is such a pointer.
NoNode == [key |-> 0, left |-> NULL, right |-> NULL, parent |-> NULL, height |-> 0]

Get(h, n) == IF n \in DOMAIN h THEN h[n] ELSE NoNode

Fault(m) == [m |-> [m EXCEPT !.fault = TRUE], ret |-> NULL]

\* operator new: the lowest address that is not in use.
Alloc(h) == CHOOSE n \in 1..(Cardinality(DOMAIN h) + 1) :
                /\ n \notin DOMAIN h
                /\ \A k \in 1..(n - 1) : k \in DOMAIN h

\* Node(const T& k, Node* par)
Node(k, par) == [key |-> k, left |-> NULL, right |-> NULL, parent |-> par, height |-> 1]

New(m, k, par) ==
    LET id == Alloc(m.heap) IN
    [m |-> [m EXCEPT !.heap = [n \in DOMAIN m.heap \cup {id} |->
                                   IF n = id THEN Node(k, par) ELSE m.heap[n]],
                     !.made = Append(m.made, id)],
     ret |-> id]

\* delete p
Delete(m, p) ==
    IF ~Live(m, p) THEN [m EXCEPT !.fault = TRUE]
    ELSE [m EXCEPT !.heap = [n \in DOMAIN m.heap \ {p} |-> m.heap[n]],
                   !.freed = Append(m.freed, p)]

\* Ghost: one more rebalancing event (a single or a double rotation).
Event(m) == [m EXCEPT !.rebal = @ + 1]

\* p->f = v
Store(m, p, f, v) ==
    IF ~Live(m, p) THEN [m EXCEPT !.fault = TRUE]
    ELSE [m EXCEPT !.heap[p][f] = v]

(* The private helpers of AVLTree *)

\* Mutant of comp: the order is reversed.
comp_Greater(a, b) == a > b

\* Compare = std::less<int>
comp(a, b) == a < b

height(h, node) == IF node # NULL THEN Get(h, node).height ELSE 0

getBalanceFactor(h, node) ==
    IF node # NULL
    THEN height(h, Get(h, node).left) - height(h, Get(h, node).right)
    ELSE 0

\* node->height = 1 + max(height(node->left), height(node->right))
UpdateHeight(m, node) ==
    Store(m, node, "height",
          1 + Max(height(m.heap, Get(m.heap, node).left),
                  height(m.heap, Get(m.heap, node).right)))

\* Mutant of rightRotate: y->parent = x is left out.
rightRotate_StaleParent(m, y) ==
    IF ~Live(m, y) THEN Fault(m)
    ELSE LET x == m.heap[y].left IN
         IF ~Live(m, x) THEN Fault(m)
         ELSE LET T2 == m.heap[x].right
                  m1 == Store(m, x, "right", y)
                  m2 == Store(m1, y, "left", T2)
                  m3 == Store(m2, x, "parent", m2.heap[y].parent)
                  m5 == IF T2 # NULL THEN Store(m3, T2, "parent", y) ELSE m3
                  m6 == UpdateHeight(m5, y)
                  m7 == UpdateHeight(m6, x)
              IN [m |-> m7, ret |-> x]

\* Mutant of rightRotate: x->parent = y->parent is left out.
rightRotate_NoParent(m, y) ==
    IF ~Live(m, y) THEN Fault(m)
    ELSE LET x == m.heap[y].left IN
         IF ~Live(m, x) THEN Fault(m)
         ELSE LET T2 == m.heap[x].right
                  m1 == Store(m, x, "right", y)
                  m2 == Store(m1, y, "left", T2)
                  m4 == Store(m2, y, "parent", x)
                  m5 == IF T2 # NULL THEN Store(m4, T2, "parent", y) ELSE m4
                  m6 == UpdateHeight(m5, y)
                  m7 == UpdateHeight(m6, x)
              IN [m |-> m7, ret |-> x]

rightRotate(m, y) ==
    IF ~Live(m, y) THEN Fault(m)
    ELSE LET x == m.heap[y].left IN
         IF ~Live(m, x) THEN Fault(m)
         ELSE LET T2 == m.heap[x].right
                  m1 == Store(m, x, "right", y)
                  m2 == Store(m1, y, "left", T2)
                  m3 == Store(m2, x, "parent", m2.heap[y].parent)
                  m4 == Store(m3, y, "parent", x)
                  m5 == IF T2 # NULL THEN Store(m4, T2, "parent", y) ELSE m4
                  m6 == UpdateHeight(m5, y)
                  m7 == UpdateHeight(m6, x)
              IN [m |-> m7, ret |-> x]

\* Mutant of leftRotate: the new subtree root's height is recomputed before
\* the height of the node that moved below it.
leftRotate_StaleHeight(m, x) ==
    IF ~Live(m, x) THEN Fault(m)
    ELSE LET y == m.heap[x].right IN
         IF ~Live(m, y) THEN Fault(m)
         ELSE LET T2 == m.heap[y].left
                  m1 == Store(m, y, "left", x)
                  m2 == Store(m1, x, "right", T2)
                  m3 == Store(m2, y, "parent", m2.heap[x].parent)
                  m4 == Store(m3, x, "parent", y)
                  m5 == IF T2 # NULL THEN Store(m4, T2, "parent", x) ELSE m4
                  m6 == UpdateHeight(m5, y)
                  m7 == UpdateHeight(m6, x)
              IN [m |-> m7, ret |-> y]

leftRotate(m, x) ==
    IF ~Live(m, x) THEN Fault(m)
    ELSE LET y == m.heap[x].right IN
         IF ~Live(m, y) THEN Fault(m)
         ELSE LET T2 == m.heap[y].left
                  m1 == Store(m, y, "left", x)
                  m2 == Store(m1, x, "right", T2)
                  m3 == Store(m2, y, "parent", m2.heap[x].parent)
                  m4 == Store(m3, x, "parent", y)
                  m5 == IF T2 # NULL THEN Store(m4, T2, "parent", x) ELSE m4
                  m6 == UpdateHeight(m5, x)
                  m7 == UpdateHeight(m6, y)
              IN [m |-> m7, ret |-> y]

\* Mutant of insertRebalance: the Left Left case rotates left and the Right
\* Right case rotates right.
insertRebalance_WrongWay(m, node, key) ==
    LET m1 == UpdateHeight(m, node)
        h == m1.heap
        balance == getBalanceFactor(h, node)
        l == Get(h, node).left
        r == Get(h, node).right
        m2 == Event(m1)
    IN  IF balance > 1 /\ ~Live(m1, l) THEN Fault(m1)
        ELSE IF balance > 1 /\ comp(key, h[l].key) THEN leftRotate(m2, node)
        ELSE IF balance < -1 /\ ~Live(m1, r) THEN Fault(m1)
        ELSE IF balance < -1 /\ comp(h[r].key, key) THEN rightRotate(m2, node)
        ELSE IF balance > 1 /\ comp(h[l].key, key)
             THEN LET a == leftRotate(m2, l)
                  IN rightRotate(Store(a.m, node, "left", a.ret), node)
        ELSE IF balance < -1 /\ comp(key, h[r].key)
             THEN LET a == rightRotate(m2, r)
                  IN leftRotate(Store(a.m, node, "right", a.ret), node)
        ELSE [m |-> m1, ret |-> node]

\* Mutant of insertRebalance: the four cases fire at a balance factor of
\* +1 / -1 already.
insertRebalance_Eager(m, node, key) ==
    LET m1 == UpdateHeight(m, node)
        h == m1.heap
        balance == getBalanceFactor(h, node)
        l == Get(h, node).left
        r == Get(h, node).right
        m2 == Event(m1)
    IN  IF balance > 0 /\ ~Live(m1, l) THEN Fault(m1)
        ELSE IF balance > 0 /\ comp(key, h[l].key) THEN rightRotate(m2, node)
        ELSE IF balance < 0 /\ ~Live(m1, r) THEN Fault(m1)
        ELSE IF balance < 0 /\ comp(h[r].key, key) THEN leftRotate(m2, node)
        ELSE IF balance > 0 /\ comp(h[l].key, key)
             THEN LET a == leftRotate(m2, l)
                  IN rightRotate(Store(a.m, node, "left", a.ret), node)
        ELSE IF balance < 0 /\ comp(key, h[r].key)
             THEN LET a == rightRotate(m2, r)
                  IN leftRotate(Store(a.m, node, "right", a.ret), node)
        ELSE [m |-> m1, ret |-> node]

\* Mutant of insertRebalance: the height is updated but nothing is rotated.
insertRebalance_None(m, node, key) == [m |-> UpdateHeight(m, node), ret |-> node]

\* AVLTree::insert(Node*, const T&, Node*), lines 183-206: the height update
\* and the four rebalancing cases on the way back up.
insertRebalance(m, node, key) ==
    LET m1 == UpdateHeight(m, node)
        h == m1.heap
        balance == getBalanceFactor(h, node)
        l == Get(h, node).left
        r == Get(h, node).right
        m2 == Event(m1)
    IN  IF balance > 1 /\ ~Live(m1, l) THEN Fault(m1)
        ELSE IF balance > 1 /\ comp(key, h[l].key) THEN rightRotate(m2, node)
        ELSE IF balance < -1 /\ ~Live(m1, r) THEN Fault(m1)
        ELSE IF balance < -1 /\ comp(h[r].key, key) THEN leftRotate(m2, node)
        ELSE IF balance > 1 /\ comp(h[l].key, key)
             THEN LET a == leftRotate(m2, l)
                  IN rightRotate(Store(a.m, node, "left", a.ret), node)
        ELSE IF balance < -1 /\ comp(key, h[r].key)
             THEN LET a == rightRotate(m2, r)
                  IN leftRotate(Store(a.m, node, "right", a.ret), node)
        ELSE [m |-> m1, ret |-> node]

\* Mutant of insert: no duplicate test, an equal key goes to the right.
RECURSIVE insert_Dup(_, _, _, _)
insert_Dup(m, node, key, parent) ==
    IF node = NULL
    THEN New([m EXCEPT !.tree_size = @ + 1], key, parent)
    ELSE IF ~Live(m, node) THEN Fault(m)
    ELSE IF comp(key, m.heap[node].key)
         THEN LET a == insert_Dup(m, m.heap[node].left, key, node)
              IN insertRebalance(Store(a.m, node, "left", a.ret), node, key)
    ELSE LET a == insert_Dup(m, m.heap[node].right, key, node)
         IN insertRebalance(Store(a.m, node, "right", a.ret), node, key)

RECURSIVE insert(_, _, _, _)
insert(m, node, key, parent) ==
    IF node = NULL
    THEN New([m EXCEPT !.tree_size = @ + 1], key, parent)
    ELSE IF ~Live(m, node) THEN Fault(m)
    ELSE IF comp(key, m.heap[node].key)
         THEN LET a == insert(m, m.heap[node].left, key, node)
              IN insertRebalance(Store(a.m, node, "left", a.ret), node, key)
    ELSE IF comp(m.heap[node].key, key)
         THEN LET a == insert(m, m.heap[node].right, key, node)
              IN insertRebalance(Store(a.m, node, "right", a.ret), node, key)
    ELSE [m |-> m, ret |-> node]

\* Mutant of minValueNode: the walk goes right instead of left.
RECURSIVE minValueNode_Rightmost(_, _)
minValueNode_Rightmost(h, node) ==
    IF node # NULL /\ Get(h, node).right # NULL
    THEN minValueNode_Rightmost(h, Get(h, node).right)
    ELSE node

\* Mutant of minValueNode: the walk to the leftmost node is left out.
minValueNode_NoLoop(h, node) == node

RECURSIVE minValueNode(_, _)
minValueNode(h, node) ==
    IF node # NULL /\ Get(h, node).left # NULL
    THEN minValueNode(h, Get(h, node).left)
    ELSE node

\* Mutant of deleteRebalance: the height is updated but nothing is rotated.
deleteRebalance_None(m, node) == [m |-> UpdateHeight(m, node), ret |-> node]

\* AVLTree::deleteNode, lines 284-307: the height update and the four
\* rebalancing cases, decided by the child's balance factor.
deleteRebalance(m, node) ==
    LET m1 == UpdateHeight(m, node)
        h == m1.heap
        balance == getBalanceFactor(h, node)
        l == Get(h, node).left
        r == Get(h, node).right
        m2 == Event(m1)
    IN  IF balance > 1 /\ getBalanceFactor(h, l) >= 0 THEN rightRotate(m2, node)
        ELSE IF balance > 1 /\ getBalanceFactor(h, l) < 0
             THEN LET a == leftRotate(m2, l)
                  IN rightRotate(Store(a.m, node, "left", a.ret), node)
        ELSE IF balance < -1 /\ getBalanceFactor(h, r) <= 0 THEN leftRotate(m2, node)
        ELSE IF balance < -1 /\ getBalanceFactor(h, r) > 0
             THEN LET a == rightRotate(m2, r)
                  IN leftRotate(Store(a.m, node, "right", a.ret), node)
        ELSE [m |-> m1, ret |-> node]

\* Mutant of removeSimple: the one-child case forgets
\* temp->parent = node->parent before the copy.
removeSimple_NoParent(m, node) ==
    LET nd == m.heap[node]
        temp == IF nd.left # NULL THEN nd.left ELSE nd.right
    IN  IF temp = NULL
        THEN [m |-> [Delete(m, node) EXCEPT !.tree_size = @ - 1], ret |-> NULL]
        ELSE IF ~Live(m, temp) THEN Fault(m)
        ELSE LET m2 == [m EXCEPT !.heap[node] = m.heap[temp]]
                 m3 == [Delete(m2, temp) EXCEPT !.tree_size = @ - 1]
             IN [m |-> m3, ret |-> node]

\* Mutant of removeSimple: the one-child case splices the child object into
\* the node's place and deletes the matched node object instead.
removeSimple_Splice(m, node) ==
    LET nd == m.heap[node]
        temp == IF nd.left # NULL THEN nd.left ELSE nd.right
    IN  IF temp = NULL
        THEN [m |-> [Delete(m, node) EXCEPT !.tree_size = @ - 1], ret |-> NULL]
        ELSE IF ~Live(m, temp) THEN Fault(m)
        ELSE LET m1 == Store(m, temp, "parent", nd.parent)
                 m3 == [Delete(m1, node) EXCEPT !.tree_size = @ - 1]
             IN [m |-> m3, ret |-> temp]

\* Mutant of removeSimple: the one-child case forgets delete temp.
removeSimple_NoDelete(m, node) ==
    LET nd == m.heap[node]
        temp == IF nd.left # NULL THEN nd.left ELSE nd.right
    IN  IF temp = NULL
        THEN [m |-> [Delete(m, node) EXCEPT !.tree_size = @ - 1], ret |-> NULL]
        ELSE IF ~Live(m, temp) THEN Fault(m)
        ELSE LET m1 == Store(m, temp, "parent", nd.parent)
                 m2 == [m1 EXCEPT !.heap[node] = m1.heap[temp]]
                 m3 == [m2 EXCEPT !.tree_size = @ - 1]
             IN [m |-> m3, ret |-> node]

\* Mutant of removeSimple: the one-child case forgets *node = *temp.
removeSimple_NoCopy(m, node) ==
    LET nd == m.heap[node]
        temp == IF nd.left # NULL THEN nd.left ELSE nd.right
    IN  IF temp = NULL
        THEN [m |-> [Delete(m, node) EXCEPT !.tree_size = @ - 1], ret |-> NULL]
        ELSE IF ~Live(m, temp) THEN Fault(m)
        ELSE LET m1 == Store(m, temp, "parent", nd.parent)
                 m3 == [Delete(m1, temp) EXCEPT !.tree_size = @ - 1]
             IN [m |-> m3, ret |-> node]

\* Mutant of removeSimple: the one-child case forgets --tree_size.
removeSimple_NoDecrement(m, node) ==
    LET nd == m.heap[node]
        temp == IF nd.left # NULL THEN nd.left ELSE nd.right
    IN  IF temp = NULL
        THEN [m |-> [Delete(m, node) EXCEPT !.tree_size = @ - 1], ret |-> NULL]
        ELSE IF ~Live(m, temp) THEN Fault(m)
        ELSE LET m1 == Store(m, temp, "parent", nd.parent)
                 m2 == [m1 EXCEPT !.heap[node] = m1.heap[temp]]
                 m3 == Delete(m2, temp)
             IN [m |-> m3, ret |-> node]

\* AVLTree::deleteNode, lines 261-275: the matched node has at most one child.
\* With no child the node itself is deleted; with one child the child's
\* parent is redirected, the whole child struct is copied over the node
\* (*node = *temp) and the child object is deleted.  tree_size is a size_t;
\* the decrement runs only after a node was matched, where C6_SizeConsistent
\* gives tree_size >= 1, so it never wraps.
removeSimple(m, node) ==
    LET nd == m.heap[node]
        temp == IF nd.left # NULL THEN nd.left ELSE nd.right
    IN  IF temp = NULL
        THEN [m |-> [Delete(m, node) EXCEPT !.tree_size = @ - 1], ret |-> NULL]
        ELSE IF ~Live(m, temp) THEN Fault(m)
        ELSE LET m1 == Store(m, temp, "parent", nd.parent)
                 m2 == [m1 EXCEPT !.heap[node] = m1.heap[temp]]
                 m3 == [Delete(m2, temp) EXCEPT !.tree_size = @ - 1]
             IN [m |-> m3, ret |-> node]

\* Mutant of deleteNode: the two-child case forgets node->key = temp->key.
RECURSIVE deleteNode_NoKeyCopy(_, _, _)
deleteNode_NoKeyCopy(m, node, key) ==
    IF node = NULL THEN [m |-> m, ret |-> node]
    ELSE IF ~Live(m, node) THEN Fault(m)
    ELSE IF comp(key, m.heap[node].key)
         THEN LET a == deleteNode_NoKeyCopy(m, m.heap[node].left, key)
              IN deleteRebalance(Store(a.m, node, "left", a.ret), node)
    ELSE IF comp(m.heap[node].key, key)
         THEN LET a == deleteNode_NoKeyCopy(m, m.heap[node].right, key)
              IN deleteRebalance(Store(a.m, node, "right", a.ret), node)
    ELSE IF m.heap[node].left = NULL \/ m.heap[node].right = NULL
         THEN LET a == removeSimple(m, node)
              IN IF a.ret = NULL THEN a ELSE deleteRebalance(a.m, a.ret)
    ELSE LET temp == minValueNode(m.heap, m.heap[node].right)
             tkey == Get(m.heap, temp).key
             a == deleteNode_NoKeyCopy(m, m.heap[node].right, tkey)
         IN deleteRebalance(Store(a.m, node, "right", a.ret), node)

\* Mutant of deleteNode: the second comparison is left out, so any node whose
\* key is not above the searched key is taken for the match.
RECURSIVE deleteNode_NoGreaterTest(_, _, _)
deleteNode_NoGreaterTest(m, node, key) ==
    IF node = NULL THEN [m |-> m, ret |-> node]
    ELSE IF ~Live(m, node) THEN Fault(m)
    ELSE IF comp(key, m.heap[node].key)
         THEN LET a == deleteNode_NoGreaterTest(m, m.heap[node].left, key)
              IN deleteRebalance(Store(a.m, node, "left", a.ret), node)
    ELSE IF m.heap[node].left = NULL \/ m.heap[node].right = NULL
         THEN LET a == removeSimple(m, node)
              IN IF a.ret = NULL THEN a ELSE deleteRebalance(a.m, a.ret)
    ELSE LET temp == minValueNode(m.heap, m.heap[node].right)
             tkey == Get(m.heap, temp).key
             m1 == Store(m, node, "key", tkey)
             a == deleteNode_NoGreaterTest(m1, m1.heap[node].right, tkey)
         IN deleteRebalance(Store(a.m, node, "right", a.ret), node)

RECURSIVE deleteNode(_, _, _)
deleteNode(m, node, key) ==
    IF node = NULL THEN [m |-> m, ret |-> node]
    ELSE IF ~Live(m, node) THEN Fault(m)
    ELSE IF comp(key, m.heap[node].key)
         THEN LET a == deleteNode(m, m.heap[node].left, key)
              IN deleteRebalance(Store(a.m, node, "left", a.ret), node)
    ELSE IF comp(m.heap[node].key, key)
         THEN LET a == deleteNode(m, m.heap[node].right, key)
              IN deleteRebalance(Store(a.m, node, "right", a.ret), node)
    ELSE IF m.heap[node].left = NULL \/ m.heap[node].right = NULL
         THEN LET a == removeSimple(m, node)
              IN IF a.ret = NULL THEN a ELSE deleteRebalance(a.m, a.ret)
    ELSE LET temp == minValueNode(m.heap, m.heap[node].right)
             tkey == Get(m.heap, temp).key
             m1 == Store(m, node, "key", tkey)
             a == deleteNode(m1, m1.heap[node].right, tkey)
         IN deleteRebalance(Store(a.m, node, "right", a.ret), node)

\* Mutant of clearNode: the right subtree is not visited.
RECURSIVE clearNode_NoRight(_, _)
clearNode_NoRight(m, node) ==
    IF node = NULL THEN m
    ELSE IF ~Live(m, node) THEN [m EXCEPT !.fault = TRUE]
    ELSE Delete(clearNode_NoRight(m, m.heap[node].left), node)

\* AVLTree::clear(Node*): post-order destruction of a subtree.
RECURSIVE clearNode(_, _)
clearNode(m, node) ==
    IF node = NULL THEN m
    ELSE IF ~Live(m, node) THEN [m EXCEPT !.fault = TRUE]
    ELSE LET m1 == clearNode(m, m.heap[node].left)
             m2 == clearNode(m1, Get(m1.heap, node).right)
         IN Delete(m2, node)

empty == tree_size = 0

size == tree_size

\* AVLTree::find: the descent loop, from `current`.
RECURSIVE findFrom(_, _, _)
findFrom(h, current, key) ==
    IF current = NULL THEN NULL
    ELSE IF comp(key, Get(h, current).key) THEN findFrom(h, Get(h, current).left, key)
    ELSE IF comp(Get(h, current).key, key) THEN findFrom(h, Get(h, current).right, key)
    ELSE current

\* Mutant of find: the two descent directions are swapped.
RECURSIVE findFrom_Swapped(_, _, _)
findFrom_Swapped(h, current, key) ==
    IF current = NULL THEN NULL
    ELSE IF comp(key, Get(h, current).key)
         THEN findFrom_Swapped(h, Get(h, current).right, key)
    ELSE IF comp(Get(h, current).key, key)
         THEN findFrom_Swapped(h, Get(h, current).left, key)
    ELSE current

find_Swapped(h, rt, key) == findFrom_Swapped(h, rt, key)

find(h, rt, key) == findFrom(h, rt, key)

(* The cursor: iterator and const_iterator run the same steps *)

RECURSIVE minimum(_, _)
minimum(h, node) ==
    IF node # NULL /\ Get(h, node).left # NULL
    THEN minimum(h, Get(h, node).left)
    ELSE node

\* while (current->right) current = current->right;
RECURSIVE rightmost(_, _)
rightmost(h, current) ==
    IF Get(h, current).right # NULL
    THEN rightmost(h, Get(h, current).right)
    ELSE current

\* while (p && current == p->right) { current = p; p = p->parent; } current = p;
RECURSIVE climbWhileRight(_, _, _)
climbWhileRight(h, current, p) ==
    IF p # NULL /\ current = Get(h, p).right
    THEN climbWhileRight(h, p, Get(h, p).parent)
    ELSE p

\* Mutant of climbWhileLeft: when the climb runs out of parents the cursor
\* stays on the topmost node reached instead of becoming NULL.
RECURSIVE climbWhileLeft_StopsAtTop(_, _, _)
climbWhileLeft_StopsAtTop(h, current, p) ==
    IF p # NULL /\ current = Get(h, p).left
    THEN climbWhileLeft_StopsAtTop(h, p, Get(h, p).parent)
    ELSE IF p = NULL THEN current ELSE p

\* while (p && current == p->left) { current = p; p = p->parent; } current = p;
RECURSIVE climbWhileLeft(_, _, _)
climbWhileLeft(h, current, p) ==
    IF p # NULL /\ current = Get(h, p).left
    THEN climbWhileLeft(h, p, Get(h, p).parent)
    ELSE p

\* Mutant of operatorInc: without a right child it steps to the parent,
\* the climb past right-child links is left out.
operatorInc_NoClimb(h, current) ==
    IF current = NULL THEN current
    ELSE IF Get(h, current).right # NULL THEN minimum(h, Get(h, current).right)
    ELSE Get(h, current).parent

\* iterator::operator++ : the new value of `current`
operatorInc(h, current) ==
    IF current = NULL THEN current
    ELSE IF Get(h, current).right # NULL THEN minimum(h, Get(h, current).right)
    ELSE climbWhileRight(h, current, Get(h, current).parent)

\* Mutant of operatorDec: from end() it stops at the root, the walk to the
\* rightmost node is left out.
operatorDec_NoWalk(h, rt, current) ==
    IF current = NULL
    THEN rt
    ELSE IF Get(h, current).left # NULL THEN rightmost(h, Get(h, current).left)
    ELSE climbWhileLeft(h, current, Get(h, current).parent)

\* iterator::operator-- : the new value of `current`; rt is tree->root
operatorDec(h, rt, current) ==
    IF current = NULL
    THEN IF rt = NULL THEN NULL ELSE rightmost(h, rt)
    ELSE IF Get(h, current).left # NULL THEN rightmost(h, Get(h, current).left)
    ELSE climbWhileLeft(h, current, Get(h, current).parent)

\* AVLTree::begin: the leftmost node, or NULL for an empty tree
begin(h, rt) == IF rt # NULL THEN minimum(h, rt) ELSE rt

\* AVLTree::end
end == NULL

(* The state machine: one action per public call *)

\* The machine state a mutating call starts from.
M0 == [heap |-> heap, tree_size |-> tree_size, fault |-> FALSE,
       made |-> <<>>, freed |-> <<>>, rebal |-> 0]

Call(op, key, m) ==
    [op |-> op, key |-> key, made |-> m.made, freed |-> m.freed, rebal |-> m.rebal,
     shape |-> "none"]

Query(op, key) ==
    [op |-> op, key |-> key, made |-> <<>>, freed |-> <<>>, rebal |-> 0,
     shape |-> "none"]

\* Ghost: which removal shape of AVLTree::deleteNode (lines 259-282) an
\* erase(key) meets: the key is absent, its node is a leaf, has one child, or
\* has two children with a successor that is a leaf or has a right child.
Shape(h, rt, key) ==
    LET n == find(h, rt, key)
        l == Get(h, n).left
        r == Get(h, n).right
    IN  IF n = NULL THEN "absent"
        ELSE IF l = NULL /\ r = NULL THEN "leaf"
        ELSE IF l = NULL \/ r = NULL THEN "one child"
        ELSE IF Get(h, minValueNode(h, r)).right = NULL THEN "two children, leaf successor"
        ELSE "two children, successor with right child"

\* The client holds no open cursor: spec section 9 leaves a structural
\* mutation interleaved with an open cursor unsupported, so the client lets
\* its cursor go (back to end()) before it calls insert, erase or clear.
NoOpenCursor == it = end

Init ==
    /\ root = NULL
    /\ tree_size = 0
    /\ heap = <<>>
    /\ it = NULL
    /\ fault = FALSE
    /\ last = Query("construct", 0)
    /\ S = {}

\* void AVLTree::insert(const T& key)
Insert(k) ==
    /\ ~fault
    /\ NoOpenCursor
    /\ LET a == insert(M0, root, k, NULL)
       IN /\ root' = a.ret
          /\ heap' = a.m.heap
          /\ tree_size' = a.m.tree_size
          /\ fault' = a.m.fault
          /\ last' = Call("insert", k, a.m)
    /\ S' = S \cup {k}
    /\ UNCHANGED it

\* void AVLTree::erase(const T& key)
Erase(k) ==
    /\ ~fault
    /\ NoOpenCursor
    /\ LET a == deleteNode(M0, root, k)
       IN /\ root' = a.ret
          /\ heap' = a.m.heap
          /\ tree_size' = a.m.tree_size
          /\ fault' = a.m.fault
          /\ last' = [Call("erase", k, a.m) EXCEPT !.shape = Shape(heap, root, k)]
    /\ S' = S \ {k}
    /\ UNCHANGED it

\* void AVLTree::clear()
Clear ==
    /\ ~fault
    /\ NoOpenCursor
    /\ LET m == clearNode(M0, root)
       IN /\ heap' = m.heap
          /\ fault' = m.fault
          /\ last' = Call("clear", 0, m)
    /\ root' = NULL
    /\ tree_size' = 0
    /\ S' = {}
    /\ UNCHANGED it

\* it = tree.find(k)
Find(k) ==
    /\ ~fault
    /\ it' = find(heap, root, k)
    /\ last' = Query("find", k)
    /\ UNCHANGED <<root, tree_size, heap, fault, S>>

\* Mutant of Begin: the walk to the leftmost node moves the member root
\* itself instead of a local pointer.
Begin_WalksRoot ==
    /\ ~fault
    /\ it' = begin(heap, root)
    /\ root' = begin(heap, root)
    /\ last' = Query("begin", 0)
    /\ UNCHANGED <<tree_size, heap, fault, S>>

\* it = tree.begin()
Begin ==
    /\ ~fault
    /\ it' = begin(heap, root)
    /\ last' = Query("begin", 0)
    /\ UNCHANGED <<root, tree_size, heap, fault, S>>

\* it = tree.end()
End ==
    /\ ~fault
    /\ it' = end
    /\ last' = Query("end", 0)
    /\ UNCHANGED <<root, tree_size, heap, fault, S>>

\* ++it
Advance ==
    /\ ~fault
    /\ it' = operatorInc(heap, it)
    /\ last' = Query("advance", 0)
    /\ UNCHANGED <<root, tree_size, heap, fault, S>>

\* --it
Retreat ==
    /\ ~fault
    /\ it' = operatorDec(heap, root, it)
    /\ last' = Query("retreat", 0)
    /\ UNCHANGED <<root, tree_size, heap, fault, S>>

Next ==
    \/ \E k \in Keys : Insert(k)
    \/ \E k \in Keys : Erase(k)
    \/ Clear
    \/ \E k \in Keys : Find(k)
    \/ Begin
    \/ End
    \/ Advance
    \/ Retreat

Spec == Init /\ [][Next]_vars

(* main(): the calls of the demonstration program, in its order *)

\* The keys main inserts, in its order.
script == <<15, 10, 20, 8, 12, 16, 25, 5, 11, 13>>

ScriptKeys == {script[j] : j \in 1..Len(script)}

valueToFind == 10

valueToErase == 10

\* The i-th insert of main: the ones before it are done and no other is.
ScriptInsert(i) ==
    /\ S = {script[j] : j \in 1..(i - 1)}
    /\ i = 1 => last.op = "construct"
    /\ Insert(script[i])

\* The cursor calls main makes (begin, ++ and end of the range-based for,
\* find(valueToFind)); here they may run between any two mutating calls once
\* the tree holds a key.
ScriptCursor ==
    /\ S # {}
    /\ \/ Begin
       \/ Advance
       \/ End
       \/ Find(valueToFind)

ScriptErase ==
    /\ S = ScriptKeys
    /\ Erase(valueToErase)

ScriptClear ==
    /\ S = ScriptKeys \ {valueToErase}
    /\ Clear

NextScenario ==
    \/ \E i \in 1..Len(script) : ScriptInsert(i)
    \/ ScriptCursor
    \/ ScriptErase
    \/ ScriptClear

SpecScenario == Init /\ [][NextScenario]_vars

(* What the tree is, recomputed from the links alone *)

Children(h, n) == {Get(h, n).left, Get(h, n).right} \ {NULL}

RECURSIVE Closure(_, _)
Closure(h, set) ==
    LET nx == set \cup UNION {Children(h, n) : n \in set}
    IN IF nx = set THEN set ELSE Closure(h, nx)

\* The nodes of the subtree hanging off pointer n.
Subtree(h, n) == IF n = NULL THEN {} ELSE Closure(h, {n})

Reachable == Subtree(heap, root)

\* Recursion depth that any tree over the live nodes stays within.
Fuel == Cardinality(DOMAIN heap) + 1

RECURSIVE TrueHeight(_, _, _)
TrueHeight(h, n, fuel) ==
    IF n = NULL \/ fuel = 0 THEN 0
    ELSE 1 + Max(TrueHeight(h, Get(h, n).left, fuel - 1),
                 TrueHeight(h, Get(h, n).right, fuel - 1))

RECURSIVE InOrder(_, _, _)
InOrder(h, n, fuel) ==
    IF n = NULL \/ fuel = 0 THEN <<>>
    ELSE InOrder(h, Get(h, n).left, fuel - 1)
         \o <<Get(h, n).key>>
         \o InOrder(h, Get(h, n).right, fuel - 1)

InOrderKeys == InOrder(heap, root, Fuel)

RECURSIVE Ascending(_)
Ascending(set) ==
    IF set = {} THEN <<>>
    ELSE LET lo == CHOOSE x \in set : \A y \in set : x <= y
         IN <<lo>> \o Ascending(set \ {lo})

StoredKeys == {Get(heap, n).key : n \in Reachable}

\* C1: the in-order key sequence of the tree is the ascending sequence of
\* the abstract set S kept side by side (insert adds k, erase removes k,
\* clear empties it).
C1_RefinesSet == InOrderKeys = Ascending(S)

C1_Witness ==
    /\ last.op = "erase"
    /\ Len(last.freed) = 1
    /\ Cardinality(S) >= 3
    /\ last.key \notin S

\* C2: every node reachable from root has subtrees whose true (recomputed)
\* heights differ by at most one.
C2_Balanced ==
    \A n \in Reachable :
        LET d == TrueHeight(heap, Get(heap, n).left, Fuel)
                 - TrueHeight(heap, Get(heap, n).right, Fuel)
        IN d \in {-1, 0, 1}

C2_Witness ==
    /\ last.op = "erase"
    /\ last.rebal >= 1
    /\ tree_size >= 3
    /\ TrueHeight(heap, root, Fuel) = 2

\* C3: for every reachable node, every key in its left subtree is strictly
\* less than its key and every key in its right subtree strictly greater;
\* no two reachable nodes hold equal keys.
C3_StrictBST ==
    /\ \A n \in Reachable :
        /\ \A d \in Subtree(heap, Get(heap, n).left) :
               Get(heap, d).key < Get(heap, n).key
        /\ \A d \in Subtree(heap, Get(heap, n).right) :
               Get(heap, d).key > Get(heap, n).key
    /\ \A a, b \in Reachable : a # b => Get(heap, a).key # Get(heap, b).key

C3_Witness ==
    /\ last.op = "erase"
    /\ Len(last.freed) = 1
    /\ tree_size >= 3
    /\ \E n \in Reachable : Get(heap, n).left # NULL /\ Get(heap, n).right # NULL

\* C4: root.parent is absent; every present child of a reachable node is a
\* live node whose parent link is that node; every reachable node other
\* than root has a reachable live parent that has it as left or right child.
C4_ParentConsistent ==
    /\ root # NULL => root \in DOMAIN heap /\ heap[root].parent = NULL
    /\ \A n \in Reachable :
        /\ n \in DOMAIN heap
        /\ \A c \in Children(heap, n) :
               c \in DOMAIN heap /\ heap[c].parent = n
        /\ n # root =>
               LET p == Get(heap, n).parent
               IN /\ p \in Reachable
                  /\ p \in DOMAIN heap
                  /\ (heap[p].left = n \/ heap[p].right = n)

C4_Witness ==
    /\ last.op = "insert"
    /\ last.rebal = 1
    /\ tree_size >= 4
    /\ \E n \in Reachable : n # root /\ Children(heap, n) # {}

\* C5: every reachable node's cached height is 1 + max of its children's
\* cached heights (absent child 0), and so is the true height of its subtree.
C5_HeightCache ==
    \A n \in Reachable :
        /\ Get(heap, n).height
             = 1 + Max(height(heap, Get(heap, n).left),
                       height(heap, Get(heap, n).right))
        /\ Get(heap, n).height = TrueHeight(heap, n, Fuel)

C5_Witness ==
    /\ last.op \in {"insert", "erase"}
    /\ last.rebal >= 1
    /\ root # NULL
    /\ Get(heap, root).height = 3

\* C6: size() is the number of nodes reachable from root, and empty() holds
\* exactly when root is absent.
C6_SizeConsistent ==
    /\ size = Cardinality(Reachable)
    /\ empty <=> root = NULL

C6_Witness ==
    /\ last.op = "erase"
    /\ Len(last.freed) = 1
    /\ size = 2

(* Traversals, run with the cursor's own steps *)

\* for (c = cur; c != end(); ++c) visit(c): the nodes visited.  The walk is
\* cut after `fuel` visits, more than any tree over the live nodes has.
RECURSIVE Forward(_, _, _)
Forward(h, cur, fuel) ==
    IF cur = end \/ fuel = 0 THEN <<>>
    ELSE <<cur>> \o Forward(h, operatorInc(h, cur), fuel - 1)

\* cur is where a retreat has just put the cursor: visit it, and retreat
\* again unless it equals begin().
RECURSIVE Backward(_, _, _, _)
Backward(h, rt, cur, fuel) ==
    IF cur = end \/ fuel = 0 THEN <<>>
    ELSE <<cur>> \o (IF cur = begin(h, rt) THEN <<>>
                     ELSE Backward(h, rt, operatorDec(h, rt, cur), fuel - 1))

KeysOf(h, nodes) == [i \in 1..Len(nodes) |-> Get(h, nodes[i]).key]

Reverse(seq) == [i \in 1..Len(seq) |-> seq[Len(seq) + 1 - i]]

Range(seq) == {seq[i] : i \in 1..Len(seq)}

ForwardNodes == Forward(heap, begin(heap, root), Fuel)

BackwardNodes == Backward(heap, root, operatorDec(heap, root, end), Fuel)

\* C7: advancing a cursor from begin() until it equals end() visits exactly
\* size() nodes, all the reachable ones, and the keys read are the stored
\* keys in strictly increasing order; on an empty tree begin() equals end().
C7_ForwardTraversal ==
    /\ Len(ForwardNodes) = size
    /\ Range(ForwardNodes) = Reachable
    /\ KeysOf(heap, ForwardNodes) = Ascending(S)
    /\ \A i \in 1..(Len(ForwardNodes) - 1) :
           Get(heap, ForwardNodes[i]).key < Get(heap, ForwardNodes[i + 1]).key
    /\ root = NULL => begin(heap, root) = end

C7_Witness ==
    /\ last.op = "advance"
    /\ size >= 4
    /\ it # end
    /\ Get(heap, it).right = NULL
    /\ Get(heap, it).parent # NULL
    /\ operatorInc(heap, it) = end

\* C8: on a non-empty tree one retreat from end() lands on the node with
\* the maximum key, and retreating from end() until the cursor equals
\* begin() reads the stored keys in exactly the reverse of the forward
\* order, each once.
C8_BackwardTraversal ==
    root # NULL =>
        /\ operatorDec(heap, root, end) # end
        /\ \A k \in S : k <= Get(heap, operatorDec(heap, root, end)).key
        /\ Get(heap, operatorDec(heap, root, end)).key \in S
        /\ KeysOf(heap, BackwardNodes) = Reverse(KeysOf(heap, ForwardNodes))
        /\ BackwardNodes = Reverse(ForwardNodes)
        /\ Len(BackwardNodes) = Cardinality(S)
        /\ Range(KeysOf(heap, BackwardNodes)) = S

C8_Witness ==
    /\ last.op = "retreat"
    /\ size >= 4
    /\ it # end
    /\ it = begin(heap, root)
    /\ it # root

\* C9: for every key k of the key domain, find(k) is the end cursor exactly
\* when k is not stored, and otherwise a cursor on a reachable node whose
\* key equals k.
C9_FindCorrect ==
    \A k \in Keys :
        LET c == find(heap, root, k)
        IN /\ c = end <=> k \notin S
           /\ c # end => /\ c \in Reachable
                         /\ c \in DOMAIN heap
                         /\ heap[c].key = k

C9_Witness ==
    /\ last.op = "find"
    /\ last.key \in S
    /\ it # end
    /\ it # root
    /\ Get(heap, it).key = last.key
    /\ \E k \in Keys : k \notin S /\ find(heap, root, k) = end

\* C10: insert(k) of a key that is already stored leaves size() and the
\* in-order key sequence unchanged and creates no node.
C10_DuplicateInsertNoop ==
    [][(last'.op = "insert" /\ last'.key \in S) =>
           /\ size' = size
           /\ InOrderKeys' = InOrderKeys
           /\ DOMAIN heap' = DOMAIN heap
           /\ last'.made = <<>>]_vars

C10_Witness ==
    /\ last.op = "insert"
    /\ last.key \in S
    /\ last.made = <<>>
    /\ size >= 3
    /\ last.key # Get(heap, root).key

\* C11: erase(k) of a key that is not stored leaves size() and the in-order
\* key sequence unchanged, destroys no node and raises nothing.
C11_AbsentEraseNoop ==
    [][(last'.op = "erase" /\ last'.key \notin S) =>
           /\ size' = size
           /\ InOrderKeys' = InOrderKeys
           /\ DOMAIN heap' = DOMAIN heap
           /\ last'.freed = <<>>
           /\ ~fault']_vars

C11_Witness ==
    /\ last.op = "erase"
    /\ last.freed = <<>>
    /\ size >= 4
    /\ \E a, b \in S : a < last.key /\ last.key < b

\* C12: after clear() root is absent, size() is 0, empty() holds, begin()
\* equals end(), every node that was in the tree has been destroyed, once,
\* and the tree fields are those of a freshly constructed tree.
C12_Clear ==
    [][last'.op = "clear" =>
           /\ root' = NULL
           /\ size' = 0
           /\ empty'
           /\ begin(heap', root') = end
           /\ DOMAIN heap' = {}
           /\ Range(last'.freed) = Reachable
           /\ Len(last'.freed) = Cardinality(Reachable)
           /\ ~fault'
           /\ \A k \in Keys :
                  LET a == insert(M0', root', k, NULL)
                      b == insert([M0 EXCEPT !.heap = <<>>, !.tree_size = 0],
                                  NULL, k, NULL)
                  IN a.m.heap = b.m.heap /\ a.ret = b.ret
                     /\ a.m.tree_size = b.m.tree_size]_vars

C12_Witness ==
    /\ last.op = "clear"
    /\ Len(last.freed) >= 4
    /\ root = NULL

NoDuplicates(seq) == \A i, j \in 1..Len(seq) : i # j => seq[i] # seq[j]

Links(h, n) == {Get(h, n).left, Get(h, n).right, Get(h, n).parent} \ {NULL}

\* C13: the live node objects are exactly the nodes reachable from root,
\* no link of a reachable node refers to a destroyed node, no node object
\* is destroyed twice, an erase of a stored key destroys exactly one node
\* object and an insert of a new key creates exactly one.
C13_Ownership ==
    /\ [](/\ DOMAIN heap = Reachable
          /\ \A n \in Reachable : Links(heap, n) \subseteq DOMAIN heap
          /\ ~fault
          /\ NoDuplicates(last.freed))
    /\ [][/\ (last'.op = "erase" /\ last'.key \in S) =>
                /\ Len(last'.freed) = 1
                /\ last'.made = <<>>
                /\ last'.freed[1] \in DOMAIN heap
                /\ DOMAIN heap' = DOMAIN heap \ {last'.freed[1]}
          /\ (last'.op = "insert" /\ last'.key \notin S) =>
                /\ Len(last'.made) = 1
                /\ last'.freed = <<>>
                /\ last'.made[1] \notin DOMAIN heap
                /\ DOMAIN heap' = DOMAIN heap \cup {last'.made[1]}]_vars

C13_Witness ==
    /\ last.op = "erase"
    /\ Len(last.freed) = 1
    /\ last.rebal >= 1
    /\ size = 4
    /\ DOMAIN heap = Reachable

Least(set) == CHOOSE x \in set : \A y \in set : x <= y

Greatest(set) == CHOOSE x \in set : \A y \in set : x >= y

\* C14: across every insert(x), every node object n that was in the tree is
\* still live, still reachable and still holds its key k; advancing a cursor
\* positioned at n in the post-insert tree lands on the node holding the
\* least stored key greater than k (end if there is none), and retreating it
\* lands on the node holding the greatest stored key less than k when there
\* is one.
C14_CursorAcrossInsert ==
    [][last'.op = "insert" =>
           /\ DOMAIN heap' = Reachable'
           /\ {Get(heap', n).key : n \in DOMAIN heap'} = S'
           /\ last'.freed = <<>>
           /\ \A n \in Reachable :
                  LET k == Get(heap, n).key
                      up == {j \in S' : j > k}
                      dn == {j \in S' : j < k}
                      nxt == operatorInc(heap', n)
                      prv == operatorDec(heap', root', n)
                  IN /\ n \in DOMAIN heap'
                     /\ Get(heap', n).key = k
                     /\ IF up = {} THEN nxt = end
                        ELSE nxt \in DOMAIN heap'
                             /\ Get(heap', nxt).key = Least(up)
                     /\ dn # {} =>
                            /\ prv \in DOMAIN heap'
                            /\ Get(heap', prv).key = Greatest(dn)]_vars

C14_Witness ==
    /\ last.op = "insert"
    /\ Len(last.made) = 1
    /\ last.rebal >= 1
    /\ size >= 4
    /\ \E n \in Reachable :
           /\ n # last.made[1]
           /\ n # root
           /\ operatorInc(heap, n) = last.made[1]
           /\ Get(heap, n).right = NULL

\* C15: when erase(k) meets a node object n that holds k and has both a left
\* and a right child, then after the erase n has not been destroyed, is
\* still reachable from root, and holds the key that was the in-order
\* successor of k before the erase.
C15_TwoChildKeepsTarget ==
    [][last'.op = "erase" =>
           LET n == find(heap, root, last'.key)
               up == {j \in S : j > last'.key}
           IN (n # NULL /\ Get(heap, n).left # NULL /\ Get(heap, n).right # NULL) =>
                  /\ n \in DOMAIN heap'
                  /\ n \notin Range(last'.freed)
                  /\ n \in Reachable'
                  /\ up # {}
                  /\ Get(heap', n).key = Least(up)
                  /\ last'.shape \in {"two children, leaf successor",
                                     "two children, successor with right child"}]_vars

C15_Witness ==
    /\ last.op = "erase"
    /\ last.shape = "two children, successor with right child"
    /\ Len(last.freed) = 1
    /\ last.freed[1] \notin Reachable
    /\ \E n \in Reachable :
           /\ last.key < Get(heap, n).key
           /\ \A j \in S : ~(last.key < j /\ j < Get(heap, n).key)
           /\ Children(heap, n) # {}

\* The only child of node n, for a node that has exactly one.
OnlyChild(h, n) == IF Get(h, n).left # NULL THEN Get(h, n).left ELSE Get(h, n).right

OneChild(h, n) ==
    /\ n # NULL
    /\ (Get(h, n).left = NULL) # (Get(h, n).right = NULL)

\* C16 as stated: when erase(k) meets a node object n that holds k and has
\* exactly one child c, the node object destroyed is n, and c survives,
\* reachable, with its parent set to n's former parent and its own key.
C16_Original ==
    [][last'.op = "erase" =>
           LET n == find(heap, root, last'.key)
               c == OnlyChild(heap, n)
           IN OneChild(heap, n) =>
                  /\ last'.freed = <<n>>
                  /\ c \in DOMAIN heap'
                  /\ c \in Reachable'
                  /\ Get(heap', c).parent = Get(heap, n).parent
                  /\ Get(heap', c).key = Get(heap, c).key]_vars

\* C16: when erase(k) meets a node object n that holds k and has exactly one
\* child c, the one node object destroyed is the child c; n survives, stays
\* reachable, holds the key c held and has the children c had, and keeps its
\* parent link when no ancestor is rotated; no node holds k afterwards.
C16_OneChildDestroysChild ==
    [][last'.op = "erase" =>
           LET n == find(heap, root, last'.key)
               c == OnlyChild(heap, n)
           IN OneChild(heap, n) =>
                  /\ last'.freed = <<c>>
                  /\ c \notin DOMAIN heap'
                  /\ n \in DOMAIN heap'
                  /\ n \in Reachable'
                  /\ Get(heap', n).key = Get(heap, c).key
                  /\ Get(heap', n).left = Get(heap, c).left
                  /\ Get(heap', n).right = Get(heap, c).right
                  /\ last'.rebal = 0 => Get(heap', n).parent = Get(heap, n).parent
                  /\ \A x \in Reachable' : Get(heap', x).key # last'.key
                  /\ last'.shape = "one child"]_vars

C16_Witness ==
    /\ last.op = "erase"
    /\ last.shape = "one child"
    /\ Len(last.freed) = 1
    /\ last.freed[1] \notin DOMAIN heap
    /\ size >= 3
    /\ last.key \notin S

TwoChildren(h, n) ==
    /\ n # NULL
    /\ Get(h, n).left # NULL
    /\ Get(h, n).right # NULL

\* C17 as stated: when erase(k) meets a node with two children, the single
\* node object destroyed is the one that held the in-order successor of k
\* (the leftmost node of the target's right subtree), whether that successor
\* had no child or a right child, and every other node object survives with
\* its key unchanged (the target apart, whose key C15 speaks of).
C17_Original ==
    [][last'.op = "erase" =>
           LET n == find(heap, root, last'.key)
               s == minValueNode(heap, Get(heap, n).right)
           IN TwoChildren(heap, n) =>
                  /\ last'.freed = <<s>>
                  /\ \A x \in DOMAIN heap \ {s} : x \in DOMAIN heap'
                  /\ \A x \in DOMAIN heap \ {s, n} :
                         Get(heap', x).key = Get(heap, x).key]_vars

\* C17: when erase(k) meets a node with two children, exactly one node
\* object is destroyed: the object that held the in-order successor of k when
\* that successor is a leaf, and the successor's right child object when the
\* successor has a right child, in which case the successor object survives
\* holding that child's key.  The target survives holding the successor's
\* key, and every other node object survives with its key unchanged.
C17_TwoChildDestroys ==
    [][last'.op = "erase" =>
           LET n == find(heap, root, last'.key)
               s == minValueNode(heap, Get(heap, n).right)
               sr == Get(heap, s).right
               d == IF sr = NULL THEN s ELSE sr
           IN TwoChildren(heap, n) =>
                  /\ s \in DOMAIN heap
                  /\ Get(heap, s).left = NULL
                  /\ last'.freed = <<d>>
                  /\ DOMAIN heap' = DOMAIN heap \ {d}
                  /\ Get(heap', n).key = Get(heap, s).key
                  /\ sr # NULL => Get(heap', s).key = Get(heap, sr).key
                  /\ \A x \in DOMAIN heap \ {d, s, n} :
                         Get(heap', x).key = Get(heap, x).key
                  /\ last'.shape = IF sr = NULL
                                   THEN "two children, leaf successor"
                                   ELSE "two children, successor with right child"]_vars

C17_Witness ==
    /\ last.op = "erase"
    /\ last.shape = "two children, successor with right child"
    /\ Len(last.freed) = 1
    /\ last.freed[1] \notin DOMAIN heap
    /\ size = 3
    /\ last.key \notin S
    /\ Get(heap, root).left # NULL
    /\ Get(heap, root).right # NULL

ReadOnlyOps == {"find", "begin", "end", "advance", "retreat"}

\* C18: find(k), begin(), end() and cursor advance and retreat leave root,
\* the size and every node's key, left, right, parent and height unchanged;
\* size(), empty() and the cursor's dereference are reads of tree_size and of
\* a node's key, which change no state.
C18_ReadOnly ==
    [][last'.op \in ReadOnlyOps =>
           /\ root' = root
           /\ tree_size' = tree_size
           /\ heap' = heap
           /\ size' = size
           /\ empty' = empty]_vars

C18_Witness ==
    /\ last.op \in ReadOnlyOps
    /\ last.op = "begin"
    /\ size = 5
    /\ it # end
    /\ it # root
    /\ Get(heap, it).parent # root

\* C19: in the run of main, once 15,10,20,8,12,16,25,5,11,13 are inserted
\* the in-order traversal reads 5,8,10,11,12,13,15,16,20,25; once 10 is
\* erased it reads 5,8,11,12,13,15,16,20,25 and size() is 9; once clear()
\* has run empty() holds and size() is 0.
C19_Scenario ==
    /\ S = ScriptKeys =>
           /\ KeysOf(heap, ForwardNodes) = <<5, 8, 10, 11, 12, 13, 15, 16, 20, 25>>
           /\ InOrderKeys = <<5, 8, 10, 11, 12, 13, 15, 16, 20, 25>>
           /\ size = 10
    /\ S = ScriptKeys \ {10} =>
           /\ KeysOf(heap, ForwardNodes) = <<5, 8, 11, 12, 13, 15, 16, 20, 25>>
           /\ InOrderKeys = <<5, 8, 11, 12, 13, 15, 16, 20, 25>>
           /\ size = 9
    /\ last.op = "clear" =>
           /\ empty
           /\ size = 0
           /\ ForwardNodes = <<>>

C19_Witness ==
    /\ last.op = "clear"
    /\ Len(last.freed) = 9
    /\ empty
    /\ S = {}

\* floor(1.45 * log2(n + 2)) for n = 0..10, at index n + 1:
\* 1.45, 2.29, 2.90, 3.36, 3.74, 4.07, 4.35, 4.59, 4.81, 5.01, 5.19.
HeightBound == <<1, 2, 2, 3, 3, 4, 4, 4, 4, 5, 5>>

\* C20: the height of the tree (root's cached height, 0 when empty, and the
\* recomputed height alike) is at most 1.45 * log2(size() + 2), checked
\* against the integer floor of that bound for the size.
C20_HeightBound ==
    /\ size + 1 \in DOMAIN HeightBound
    /\ height(heap, root) <= HeightBound[size + 1]
    /\ TrueHeight(heap, root, Fuel) <= HeightBound[size + 1]

C20_Witness ==
    /\ last.op \in {"insert", "erase"}
    /\ last.rebal >= 1
    /\ size = 4
    /\ height(heap, root) = HeightBound[size + 1]
    /\ TrueHeight(heap, root, Fuel) = 3

\* C21: one insert(k) runs at most one rebalancing event (one single or one
\* double rotation) over its whole unwind path, and leaves every node's
\* balance factor within -1..1.
C21_OneRebalancePerInsert ==
    [][last'.op = "insert" =>
           /\ last'.rebal <= 1
           /\ last'.key \in S => last'.rebal = 0
           /\ \A n \in DOMAIN heap' : getBalanceFactor(heap', n) \in {-1, 0, 1}]_vars

\* An insert rotated below the root: the new node lies at depth 3, which a
\* rotation at the root of a five-node tree does not leave.
C21_Witness ==
    /\ last.op = "insert"
    /\ last.rebal = 1
    /\ Len(last.made) = 1
    /\ size = 5
    /\ Get(heap, last.made[1]).parent # NULL
    /\ Get(heap, Get(heap, last.made[1]).parent).parent = root

NoSite == [m |-> M0, node |-> NULL]

\* Where erase(k) takes the one-child branch of deleteNode, and the machine
\* state it takes it in: at the node holding k when that node has one child,
\* or, when it has two, at its in-order successor after the key copy when the
\* successor has a right child; node is NULL when the branch is not taken.
OneChildSite(k) ==
    LET n == find(heap, root, k)
        s == minValueNode(heap, Get(heap, n).right)
    IN  IF OneChild(heap, n) THEN [m |-> M0, node |-> n]
        ELSE IF TwoChildren(heap, n) /\ OneChild(heap, s)
             THEN [m |-> Store(M0, n, "key", Get(heap, s).key), node |-> s]
        ELSE NoSite

\* C22: whenever deleteNode takes the one-child branch, the child is a leaf,
\* so right after *node = *temp; delete temp the surviving node has no
\* children, height 1 and its original parent, and no live node is left with
\* a link to the destroyed child.
C22_OneChildIsLeaf ==
    \A k \in Keys :
        LET site == OneChildSite(k)
            node == site.node
            c == OnlyChild(heap, node)
            a == removeSimple(site.m, node)
        IN node # NULL =>
               /\ node \in DOMAIN heap
               /\ c \in DOMAIN heap
               /\ Children(heap, c) = {}
               /\ heap[c].height = 1
               /\ ~a.m.fault
               /\ a.ret = node
               /\ a.m.freed = <<c>>
               /\ node \in DOMAIN a.m.heap
               /\ Get(a.m.heap, node).left = NULL
               /\ Get(a.m.heap, node).right = NULL
               /\ Get(a.m.heap, node).height = 1
               /\ Get(a.m.heap, node).parent = heap[node].parent
               /\ Get(a.m.heap, node).key = heap[c].key
               /\ \A x \in DOMAIN a.m.heap : c \notin Links(a.m.heap, x)

\* An erase that took the branch at the successor of a two-child node has
\* acted, and another key would take it at its own node.
C22_Witness ==
    /\ last.op = "erase"
    /\ last.shape = "two children, successor with right child"
    /\ Len(last.freed) = 1
    /\ \E k \in S : OneChildSite(k).node = find(heap, root, k)

\* C23: no operation dereferences an absent node: no mutating call has
\* raised the fault flag (rightRotate on a node without a left child,
\* leftRotate on one without a right child, insert's reads of
\* node->left->key / node->right->key, any store through a dead pointer),
\* none of insert(k), erase(k), clear() would raise it from here, every
\* link of a live node is NULL or a live node, and the cursor is at end() or
\* on a live node.
C23_NoAbsentDeref ==
    /\ ~fault
    /\ \A k \in Keys :
           /\ ~insert(M0, root, k, NULL).m.fault
           /\ ~deleteNode(M0, root, k).m.fault
    /\ ~clearNode(M0, root).fault
    /\ root = NULL \/ root \in DOMAIN heap
    /\ \A n \in DOMAIN heap : Links(heap, n) \subseteq DOMAIN heap
    /\ it = end \/ it \in DOMAIN heap

\* An insert ran a double rotation (the new node became a subtree root) and
\* an erase from here would rotate as well.
C23_Witness ==
    /\ last.op = "insert"
    /\ last.rebal = 1
    /\ Len(last.made) = 1
    /\ Cardinality(Children(heap, last.made[1])) = 2
    /\ last.made[1] # root
    /\ ~fault
    /\ \E k \in S : deleteNode(M0, root, k).m.rebal >= 1

Positions == Reachable \cup {end}

\* C24: retreating a cursor from the minimum element of a non-empty tree
\* gives end(), and one more retreat lands on the maximum element; every
\* advance or retreat from any cursor position (a reachable node or end())
\* gives a live reachable node or end(); retreat from end() on an empty tree
\* stays at end().
C24_RetreatWraps ==
    /\ root # NULL =>
           LET lo == begin(heap, root)
               hi == operatorDec(heap, root, operatorDec(heap, root, lo))
           IN /\ lo \in Reachable
              /\ Get(heap, lo).key = Least(S)
              /\ operatorDec(heap, root, lo) = end
              /\ hi \in Reachable
              /\ Get(heap, hi).key = Greatest(S)
    /\ \A c \in Positions :
           /\ operatorInc(heap, c) \in Positions
           /\ operatorDec(heap, root, c) \in Positions
    /\ Reachable \subseteq DOMAIN heap
    /\ it \in Positions
    /\ root = NULL => operatorDec(heap, root, end) = end

\* A retreat has just taken the cursor from the minimum element, a node
\* below the root, to end().
C24_Witness ==
    /\ last.op = "retreat"
    /\ it = end
    /\ root # NULL
    /\ size >= 4
    /\ begin(heap, root) # root
    /\ Get(heap, begin(heap, root)).parent # root

====
